---- MODULE Spec2Model ----
(***************************************************************************)
(* Grid trading engine (TrahnGridTradingBot), its strategy functions and   *)
(* the S/R recalculation scheduler (SRScheduler), as two asynchronous      *)
(* JavaScript activities sharing the bot object.  Every action is the code *)
(* that runs between two await points; prices are whole dollars.           *)
(***************************************************************************)
EXTENDS Integers, Sequences, FiniteSets, TLC

\* ---------------------------------------------------------------- bounds
gridLevels == 4
MaxTrades == 2
MaxCalls == 3
MaxPaperTrades == 1
MaxFilled == 1

\* ------------------------------------------------------ program constants
gridSpacingPercent == 2
srChangeThreshold == 5
PRICE_MIN == 100
PRICE_MAX == 100000
\* amounts are kept in ten-thousandths: of an ETH, of a dollar, of 1 (slippage)
Unit == 10000
\* PAPER_INITIAL_ETH = 1.0, PAPER_INITIAL_USDC = 1000
initialETH == 1 * Unit
initialUSDC == 1000 * Unit
\* options.amountPerGrid || 100, in dollars
amountPerGrid == 100
\* PAPER_SLIPPAGE_PERCENT = 0.5: the largest slippage is 0.5 / 100
paperSlippagePercent == 50

\* ------------------------------------------------------- input alphabets
Midpoints == {3000, 3150}
\* 3329 is the highest level of the 4-level ladder around 3200
Prices == {2800, 3100, 3329}
RawPrices == Prices \cup {50, 200000}
ConfiguredBasePrices == {0, 3200}
\* a count of 1 is one the ladder builder rejects
LevelCounts == {1, gridLevels - 1, gridLevels}
NoRecord == [midpoint |-> 0, gridRecalculated |-> FALSE]
Unavailable == 0 - 1
NoLevel == [pos |-> 0, index |-> 0 - 1, side |-> "none", stale |-> FALSE]
NoTick == [price |-> 0, level |-> NoLevel, quantity |-> 0, accepted |-> FALSE,
           reset |-> 0 - 1, failed |-> FALSE, effects |-> << >>]
NoFrame == [st |-> "none", centerPrice |-> 0, method |-> "none"]
KilledFrame == [st |-> "killed", centerPrice |-> 0, method |-> "none"]
NoFiring == [sr |-> 0, bot |-> FALSE, should |-> FALSE, readGrid |-> << >>,
             readPrice |-> 0, readPrev |-> NoRecord]
Callers == {"run", "scheduler"}
\* amounts handed to the paper wallet by a direct call
UsdcAmounts == {100 * Unit, 1000 * Unit, 1200 * Unit}
EthAmounts == {300, 1 * Unit, 11000}
\* estimatePaperGasCost(): 0 without gas simulation, 0.005 ETH by default,
\* else the network's gas price times gasMultiplier times gasLimit (1.1 ETH
\* when the gas price the node reports is that high)
GasCosts == {0, 50, 11000}
\* Math.random() * paperSlippagePercent / 100, Math.random() in [0, 1)
Slippages == {0, paperSlippagePercent - 1}
NoStrategyCall == [op |-> "none", centerPrice |-> 0, levelCount |-> 0]
NoCall == [n |-> 0, op |-> "none", usdcAmount |-> 0, ethAmount |-> 0, threw |-> FALSE,
           currentETHPrice |-> 0, unrealizedPnL |-> 0]

VARIABLES
    gridLevelCount,      \* bot.gridLevels, from options.gridLevels
    configuredBasePrice, \* options.basePrice handed to the constructor
    duneConfigured,      \* options.duneApiKey is set (bot.duneApi # null)
    grid,                \* bot.grid
    basePrice,           \* bot.basePrice
    lastETHPrice,        \* bot.lastETHPrice
    tradesExecuted,      \* bot.tradesExecuted
    running,             \* bot.running
    tpc,                 \* position of run()/tick()
    tk,                  \* locals of the tick in flight
    ig,                  \* locals of each initializeGrid() in flight
    spc,                 \* position of fetchAndProcessSR()
    fr,                  \* locals of the scheduler firing in flight
    srRecord,            \* latest row of support_resistance_history
    botRef,              \* module variable bot of gridBotServiceAgent # null
    app,                 \* application life cycle: up, stopping
    paperWallet,         \* a PaperWallet: ethBalance, usdcBalance, totalGasSpent, trades
    wcall,               \* the last direct call on the paper wallet and its outcome
    paperTrading,        \* bot.paperTrading
    signedTx,            \* a transaction was signed with the private key
    levels,              \* GridLevel objects handed around by gridStrategy
    json,                \* what toJSON() returned for them
    scall                \* the last call on gridStrategy and its arguments

vars == <<gridLevelCount, configuredBasePrice, duneConfigured, grid, basePrice, lastETHPrice,
          tradesExecuted, running, tpc, tk, ig, spc, fr, srRecord,
          botRef, app, paperWallet, wcall, paperTrading, signedTx,
          levels, json, scall>>

\* ============================================================ gridStrategy

RECURSIVE Pow(_, _)
Pow(b, e) == IF e = 0 THEN 1 ELSE b * Pow(b, e - 1)

\* the multiplier taken as Math.pow(1 + spacingPercent / 100, -i)
LevelPriceInverted(centerPrice, i) ==
    IF i <= 0
    THEN (centerPrice * Pow(100 + gridSpacingPercent, 0 - i)) \div Pow(100, 0 - i)
    ELSE (centerPrice * Pow(100, i)) \div Pow(100 + gridSpacingPercent, i)

\* centerPrice * Math.pow(1 + spacingPercent / 100, i), floored to a dollar
LevelPrice(centerPrice, i) ==
    IF i >= 0
    THEN (centerPrice * Pow(100 + gridSpacingPercent, i)) \div Pow(100, i)
    ELSE (centerPrice * Pow(100, 0 - i)) \div Pow(100 + gridSpacingPercent, 0 - i)

\* const quantity = amountPerGrid / levelPrice, the ETH a level trades
Quantity(levelPrice) == (amountPerGrid * Unit) \div levelPrice

\* new GridLevel(index, levelPrice, side, amountPerGrid / levelPrice, false)
GridLevel(index, price, side, filled) ==
    [index |-> index, price |-> price, side |-> side, quantity |-> Quantity(price),
     filled |-> filled]

\* grid.sort((a, b) => a.price - b.price): stable insertion by price
RECURSIVE InsertByPrice(_, _)
InsertByPrice(level, s) ==
    IF s = << >> THEN <<level>>
    ELSE IF level.price < Head(s).price THEN <<level>> \o s
    ELSE <<Head(s)>> \o InsertByPrice(level, Tail(s))

RECURSIVE SortByPrice(_)
SortByPrice(s) ==
    IF s = << >> THEN << >>
    ELSE InsertByPrice(s[Len(s)], SortByPrice(SubSeq(s, 1, Len(s) - 1)))

\* the loop of calculateGridLevels, from offset i up to halfLevels = levelCount / 2
RECURSIVE PushLevels(_, _, _, _)
PushLevels(centerPrice, i, levelCount, acc) ==
    IF i > levelCount \div 2 THEN acc
    ELSE IF i = 0 /\ levelCount % 2 = 0
         THEN PushLevels(centerPrice, i + 1, levelCount, acc)
         ELSE PushLevels(centerPrice, i + 1, levelCount,
                  Append(acc, GridLevel(Len(acc), LevelPrice(centerPrice, i),
                                        IF i < 0 THEN "buy" ELSE "sell", FALSE)))

Reindex(s) == [k \in 1..Len(s) |-> [s[k] EXCEPT !.index = k - 1]]

\* the argument checks of calculateGridLevels without the check of the amount
GridConfigErrorNoAmount(centerPrice, levelCount, spacingPercent, amount) ==
    IF centerPrice <= 0 THEN "Center price must be positive"
    ELSE IF levelCount < 2 THEN "Level count must be at least 2"
    ELSE IF spacingPercent <= 0 THEN "Spacing percent must be positive"
    ELSE "none"

\* the argument checks of calculateGridLevels: the error thrown, "none" if none
GridConfigError(centerPrice, levelCount, spacingPercent, amount) ==
    IF centerPrice <= 0 THEN "Center price must be positive"
    ELSE IF levelCount < 2 THEN "Level count must be at least 2"
    ELSE IF spacingPercent <= 0 THEN "Spacing percent must be positive"
    ELSE IF amount <= 0 THEN "Amount per grid must be positive"
    ELSE "none"

\* calculateGridLevels({centerPrice, levelCount: this.gridLevels,
\*   spacingPercent: this.gridSpacingPercent, amountPerGrid: this.amountPerGrid})
\* does not throw
ValidGridConfig(centerPrice, levelCount) ==
    GridConfigError(centerPrice, levelCount, gridSpacingPercent, amountPerGrid) = "none"

calculateGridLevels(centerPrice, levelCount) ==
    LET halfLevels == levelCount \div 2
    IN  Reindex(SortByPrice(PushLevels(centerPrice, 0 - halfLevels, levelCount, << >>)))

Triggered(level, currentPrice) ==
    \/ level.side = "buy" /\ currentPrice <= level.price
    \/ level.side = "sell" /\ currentPrice >= level.price

\* for (const level of grid): position of the level returned, 0 for null
RECURSIVE ScanFrom(_, _, _)
ScanFrom(k, currentPrice, g) ==
    IF k > Len(g) THEN 0
    ELSE IF g[k].filled THEN ScanFrom(k + 1, currentPrice, g)
    ELSE IF Triggered(g[k], currentPrice) THEN k
    ELSE ScanFrom(k + 1, currentPrice, g)

\* the scan without "if (level.filled) continue"
findTriggeredLevelFilledToo(currentPrice, g) ==
    LET hits == {k \in 1..Len(g) : Triggered(g[k], currentPrice)}
    IN  IF hits = {} THEN 0 ELSE CHOOSE k \in hits : \A j \in hits : k <= j

\* the scan run from the top of the grid downwards
findTriggeredLevelFromTop(currentPrice, g) ==
    LET hits == {k \in 1..Len(g) : ~g[k].filled /\ Triggered(g[k], currentPrice)}
    IN  IF hits = {} THEN 0 ELSE CHOOSE k \in hits : \A j \in hits : k >= j

findTriggeredLevel(currentPrice, g) == ScanFrom(1, currentPrice, g)

\* the opposite index taken as index + 1 whatever the side
getOppositeLevelIndexUpOnly(filledLevel, gridLength) ==
    IF filledLevel.index + 1 < gridLength THEN filledLevel.index + 1 ELSE 0 - 1

\* index of the level to re-arm, -1 for null
getOppositeLevelIndex(filledLevel, gridLength) ==
    LET oppositeIndex == IF filledLevel.side = "buy"
                         THEN filledLevel.index + 1
                         ELSE filledLevel.index - 1
    IN  IF oppositeIndex >= 0 /\ oppositeIndex < gridLength
        THEN oppositeIndex ELSE 0 - 1

RECURSIVE MinPrice(_)
MinPrice(g) ==
    IF Len(g) = 1 THEN g[1].price
    ELSE LET m == MinPrice(Tail(g))
         IN  IF g[1].price < m THEN g[1].price ELSE m

RECURSIVE MaxPrice(_)
MaxPrice(g) ==
    IF Len(g) = 1 THEN g[1].price
    ELSE LET m == MaxPrice(Tail(g))
         IN  IF g[1].price > m THEN g[1].price ELSE m

\* the range test taken with <= and >=
isPriceOutsideGridInclusive(currentPrice, g) ==
    IF Len(g) = 0 THEN TRUE
    ELSE currentPrice <= MinPrice(g) \/ currentPrice >= MaxPrice(g)

isPriceOutsideGrid(currentPrice, g) ==
    IF Len(g) = 0 THEN TRUE
    ELSE currentPrice < MinPrice(g) \/ currentPrice > MaxPrice(g)

\* the side test taken with some() in place of every()
areAllSideFilledSome(g, side) ==
    \E k \in 1..Len(g) : g[k].side = side /\ g[k].filled

areAllSideFilled(g, side) ==
    LET sideLevels == {k \in 1..Len(g) : g[k].side = side}
    IN  IF sideLevels = {} THEN FALSE
        ELSE \A k \in sideLevels : g[k].filled

\* ============================================================ PaperWallet

\* live mode: this.paperWallet is never assigned
NoWallet == [ethBalance |-> 0, usdcBalance |-> 0, totalGasSpent |-> 0, trades |-> 0 - 1]

\* new PaperWallet(initialETH, initialUSDC, stateFilePath) without a state file
FreshWallet ==
    [ethBalance |-> initialETH, usdcBalance |-> initialUSDC,
     totalGasSpent |-> 0, trades |-> 0]

\* executeBuy without its balance check
PaperWalletExecuteBuyUnchecked(w, usdcAmount, ethAmount) ==
    [threw |-> FALSE,
     wallet |-> [w EXCEPT !.usdcBalance = @ - usdcAmount,
                          !.ethBalance = @ + ethAmount]]

\* PaperWallet.executeBuy(usdcAmount, ethAmount): outcome and wallet left
PaperWalletExecuteBuy(w, usdcAmount, ethAmount) ==
    IF w.usdcBalance < usdcAmount
    THEN [threw |-> TRUE, wallet |-> w]
    ELSE [threw |-> FALSE,
          wallet |-> [w EXCEPT !.usdcBalance = @ - usdcAmount,
                               !.ethBalance = @ + ethAmount]]

\* PaperWallet.executeSell(ethAmount, usdcAmount): outcome and wallet left
PaperWalletExecuteSell(w, ethAmount, usdcAmount) ==
    IF w.ethBalance < ethAmount
    THEN [threw |-> TRUE, wallet |-> w]
    ELSE [threw |-> FALSE,
          wallet |-> [w EXCEPT !.ethBalance = @ - ethAmount,
                               !.usdcBalance = @ + usdcAmount]]

\* PaperWallet.deductGas(gasETH)
PaperWalletDeductGas(w, gasETH) ==
    [w EXCEPT !.ethBalance = @ - gasETH, !.totalGasSpent = @ + gasETH]

\* PaperWallet.recordTrade(tradeData): this.trades.push(trade)
PaperWalletRecordTrade(w) == [w EXCEPT !.trades = @ + 1]

\* getStats() that leaves the initial ETH out of the initial value
PaperWalletGetStatsQuoteOnly(w, currentETHPrice) ==
    LET initialValueUSD == initialUSDC
        currentValueUSD == w.ethBalance * currentETHPrice + w.usdcBalance
    IN  [initialValueUSD |-> initialValueUSD,
         currentValueUSD |-> currentValueUSD,
         unrealizedPnL |-> currentValueUSD - initialValueUSD,
         totalTrades |-> w.trades,
         totalGasSpent |-> w.totalGasSpent]

\* PaperWallet.getStats(currentETHPrice), values in ten-thousandths of a dollar
PaperWalletGetStats(w, currentETHPrice) ==
    LET initialValueUSD == initialETH * currentETHPrice + initialUSDC
        currentValueUSD == w.ethBalance * currentETHPrice + w.usdcBalance
    IN  [initialValueUSD |-> initialValueUSD,
         currentValueUSD |-> currentValueUSD,
         unrealizedPnL |-> currentValueUSD - initialValueUSD,
         totalTrades |-> w.trades,
         totalGasSpent |-> w.totalGasSpent]

\* the amount left when the slippage is taken for a percentage
AfterSlippagePercent(amount, slippage) == amount - (amount * slippage) \div 100

\* the amount left of an amount by a slippage: amount * (1 - slippage)
AfterSlippage(amount, slippage) == amount - (amount * slippage) \div Unit

\* the paper branch of executeBuy up to recordTrade: whether the balance check
\* threw, and the wallet left
PaperBuy(w, quantity, currentPrice, slippage, gasCost) ==
    LET usdcAmount == quantity * currentPrice
        actualETHReceived == AfterSlippage(quantity, slippage)
    IN  IF w.usdcBalance < usdcAmount
        THEN [threw |-> TRUE, wallet |-> w]
        ELSE [threw |-> FALSE,
              wallet |-> PaperWalletRecordTrade(PaperWalletDeductGas(
                            PaperWalletExecuteBuy(w, usdcAmount, actualETHReceived).wallet,
                            gasCost))]

\* the paper branch of executeSell up to recordTrade
PaperSell(w, quantity, currentPrice, slippage, gasCost) ==
    LET expectedUSDC == quantity * currentPrice
        actualUSDCReceived == AfterSlippage(expectedUSDC, slippage)
    IN  IF w.ethBalance < quantity + gasCost
        THEN [threw |-> TRUE, wallet |-> w]
        ELSE [threw |-> FALSE,
              wallet |-> PaperWalletRecordTrade(PaperWalletDeductGas(
                            PaperWalletExecuteSell(w, quantity, actualUSDCReceived).wallet,
                            gasCost))]

PaperTrade(side, w, quantity, currentPrice, slippage, gasCost) ==
    IF side = "buy" THEN PaperBuy(w, quantity, currentPrice, slippage, gasCost)
    ELSE PaperSell(w, quantity, currentPrice, slippage, gasCost)

\* ============================================================ persistence

\* snapshots a previous run can have left in the state file
Snapshots(levelCount) ==
    IF ~ValidGridConfig(3000, levelCount) THEN {}
    ELSE {[grid |-> [calculateGridLevels(3000, levelCount)
                        EXCEPT ![levelCount \div 2].filled = TRUE],
           basePrice |-> 3000, tradesExecuted |-> 1]}

NoSnapshot == [grid |-> << >>, basePrice |-> 0, tradesExecuted |-> 0]

\* constructor + loadState(): state || default for each field
Constructed ==
    /\ gridLevelCount \in LevelCounts
    /\ configuredBasePrice \in ConfiguredBasePrices
    /\ duneConfigured \in BOOLEAN
    /\ \E state \in Snapshots(gridLevelCount) \cup {NoSnapshot} :
          /\ grid = state.grid
          /\ tradesExecuted = state.tradesExecuted
          /\ basePrice = IF state.basePrice # 0 THEN state.basePrice
                         ELSE configuredBasePrice
    /\ lastETHPrice = 0
    /\ running = FALSE
    /\ tpc = "new"
    /\ tk = NoTick
    /\ ig = [c \in Callers |-> NoFrame]
    /\ spc = "idle"
    /\ fr = NoFiring
    /\ srRecord = NoRecord
    /\ botRef = TRUE
    /\ app = "up"
    /\ signedTx = FALSE
    /\ levels = << >>
    /\ json = << >>
    /\ scall = NoStrategyCall
    /\ wcall = NoCall
    /\ paperWallet = IF paperTrading THEN FreshWallet ELSE NoWallet

\* the engine constructed with options.paperTrading false
Init == paperTrading = FALSE /\ Constructed

\* ============================================================ price source

PriceResponses == RawPrices \cup {Unavailable}

\* the sanity check of fetchETHPrice passed
PriceAccepted(resp) ==
    resp # Unavailable /\ ~(resp < PRICE_MIN \/ resp > PRICE_MAX)

\* value returned by fetchETHPrice: the price, or this.lastETHPrice || 0
fetchETHPrice(resp) == IF PriceAccepted(resp) THEN resp ELSE lastETHPrice

\* ============================================================ run loop

\* while (this.running) { await this.tick(); ... }: tick() up to its fetch
EnterLoop == IF running THEN "fetching" ELSE "done"

\* initializeGrid() up to its first await, inside fetchSupportResistance()
StartInitializeGrid(c) ==
    [ig EXCEPT ![c] = [st |-> IF duneConfigured THEN "sr" ELSE "fbprice",
                       centerPrice |-> 0, method |-> "none"]]

\* run() that builds a ladder on start whether or not one was loaded
runRebuilding ==
    /\ app = "up" /\ tpc = "new"
    /\ running' = TRUE
    /\ tpc' = "init" /\ ig' = StartInitializeGrid("run")
    /\ tk' = NoTick
    /\ UNCHANGED <<levels, json, scall, paperTrading, signedTx, paperWallet, wcall, gridLevelCount, configuredBasePrice, duneConfigured, grid, basePrice,
                   lastETHPrice, tradesExecuted, spc, fr, srRecord,
                   botRef, app>>

run ==
    /\ app = "up" /\ tpc = "new"
    /\ running' = TRUE
    /\ IF Len(grid) = 0
       THEN tpc' = "init" /\ ig' = StartInitializeGrid("run")
       ELSE tpc' = "fetching" /\ ig' = ig
    /\ tk' = NoTick
    /\ UNCHANGED <<levels, json, scall, paperTrading, signedTx, paperWallet, wcall, gridLevelCount, configuredBasePrice, duneConfigured, grid, basePrice,
                   lastETHPrice, tradesExecuted, spc, fr, srRecord,
                   botRef, app>>

\* ============================================================ initializeGrid

\* a grid replaced under a tick that holds one of its levels orphans the level
Orphaned ==
    IF tpc = "executing" THEN [tk EXCEPT !.level.stale = TRUE] ELSE tk

\* const centerPrice = this.basePrice || sr.midpoint
CenterPrice(midpoint) == IF basePrice # 0 THEN basePrice ELSE midpoint

\* duneApi.fetchSupportResistance() returned; a cached result is one of the
\* midpoints a fresh fetch returns, so the cache adds no behaviour
fetchSupportResistance(c) ==
    /\ ig[c].st = "sr"
    /\ \E midpoint \in Midpoints :
          /\ basePrice' = CenterPrice(midpoint)
          /\ ig' = [ig EXCEPT ![c] = [st |-> "price",
                                      centerPrice |-> CenterPrice(midpoint),
                                      method |-> "dune"]]
    /\ UNCHANGED <<levels, json, scall, paperTrading, signedTx, paperWallet, wcall, gridLevelCount, configuredBasePrice, duneConfigured, grid, lastETHPrice,
                   tradesExecuted, running, tpc, tk, spc, fr, srRecord,
                   botRef, app>>

\* where the caller of initializeGrid() goes on once it returned or threw
Continue(c, threw) ==
    IF c = "run"
    THEN /\ tpc' = IF threw THEN "crashed" ELSE EnterLoop
         /\ UNCHANGED <<spc, fr>>
    ELSE /\ spc' = "idle" /\ fr' = NoFiring
         /\ UNCHANGED tpc

\* createFallbackSR(currentPrice); support and resistance in ten-thousandths
\* of a dollar
FallbackSR(currentPrice) ==
    [support |-> (currentPrice * Unit * 9) \div 10,
     resistance |-> (currentPrice * Unit * 11) \div 10,
     midpoint |-> currentPrice,
     method |-> "fallback"]

\* a failed Dune fetch that makes initializeGrid() throw
fetchSupportResistanceThrew(c) ==
    /\ ig[c].st = "sr"
    /\ ig' = [ig EXCEPT ![c] = NoFrame]
    /\ Continue(c, TRUE)
    /\ UNCHANGED <<levels, json, scall, paperTrading, signedTx, paperWallet, wcall, gridLevelCount, configuredBasePrice, duneConfigured, grid, basePrice,
                   lastETHPrice, tradesExecuted, running, tk, srRecord, botRef, app>>

\* duneApi.fetchSupportResistance() threw: fall back to the current price
fetchSupportResistanceFailed(c) ==
    /\ ig[c].st = "sr"
    /\ ig' = [ig EXCEPT ![c].st = "fbprice"]
    /\ UNCHANGED <<levels, json, scall, paperTrading, signedTx, paperWallet, wcall, gridLevelCount, configuredBasePrice, duneConfigured, grid, basePrice,
                   lastETHPrice, tradesExecuted, running, tpc, tk,
                   spc, fr, srRecord, botRef, app>>

\* createFallbackSR(await this.fetchETHPrice()), then the center is chosen
createFallbackSR(c) ==
    /\ ig[c].st = "fbprice"
    /\ \E resp \in PriceResponses :
          /\ lastETHPrice' = fetchETHPrice(resp)
          /\ basePrice' = CenterPrice(FallbackSR(fetchETHPrice(resp)).midpoint)
          /\ ig' = [ig EXCEPT ![c] = [st |-> "price",
                       centerPrice |-> CenterPrice(FallbackSR(fetchETHPrice(resp)).midpoint),
                       method |-> FallbackSR(fetchETHPrice(resp)).method]]
    /\ UNCHANGED <<levels, json, scall, paperTrading, signedTx, paperWallet, wcall, gridLevelCount, configuredBasePrice, duneConfigured, grid, tradesExecuted,
                   running, tpc, tk, spc, fr, srRecord, botRef, app>>

\* initializeGrid() that starts the trade count and the paper wallet afresh
initializeGridAfresh(c) ==
    /\ ig[c].st = "price"
    /\ \E resp \in PriceResponses :
          /\ fetchETHPrice(resp) > 0
          /\ lastETHPrice' = fetchETHPrice(resp)
    /\ ValidGridConfig(ig[c].centerPrice, gridLevelCount)
    /\ grid' = calculateGridLevels(ig[c].centerPrice, gridLevelCount)
    /\ tk' = Orphaned
    /\ tradesExecuted' = 0
    /\ paperWallet' = IF paperTrading THEN FreshWallet ELSE NoWallet
    /\ ig' = [ig EXCEPT ![c] = NoFrame]
    /\ Continue(c, FALSE)
    /\ UNCHANGED <<levels, json, scall, paperTrading, signedTx, wcall, gridLevelCount, configuredBasePrice, duneConfigured, basePrice,
                   running, srRecord, botRef, app>>

\* the price check passed: this.grid = calculateGridLevels(...); saveState()
initializeGrid(c) ==
    /\ ig[c].st = "price"
    /\ \E resp \in PriceResponses :
          /\ fetchETHPrice(resp) > 0
          /\ lastETHPrice' = fetchETHPrice(resp)
    /\ ValidGridConfig(ig[c].centerPrice, gridLevelCount)
    /\ grid' = calculateGridLevels(ig[c].centerPrice, gridLevelCount)
    /\ tk' = Orphaned
    /\ ig' = [ig EXCEPT ![c] = NoFrame]
    /\ Continue(c, FALSE)
    /\ UNCHANGED <<levels, json, scall, paperTrading, signedTx, paperWallet, wcall, gridLevelCount, configuredBasePrice, duneConfigured, basePrice,
                   tradesExecuted, running, srRecord, botRef, app>>

\* initializeGrid() that clears the ladder when it throws
initializeGridThrewCleared(c) ==
    /\ ig[c].st = "price"
    /\ \E resp \in PriceResponses :
          /\ fetchETHPrice(resp) <= 0 \/ ~ValidGridConfig(ig[c].centerPrice, gridLevelCount)
          /\ lastETHPrice' = fetchETHPrice(resp)
    /\ grid' = << >>
    /\ ig' = [ig EXCEPT ![c] = NoFrame]
    /\ Continue(c, TRUE)
    /\ UNCHANGED <<levels, json, scall, paperTrading, signedTx, paperWallet, wcall, gridLevelCount, configuredBasePrice, duneConfigured, basePrice,
                   tradesExecuted, running, tk, srRecord, botRef, app>>

\* "Cannot initialize grid: invalid ETH price", or calculateGridLevels threw
initializeGridThrew(c) ==
    /\ ig[c].st = "price"
    /\ \E resp \in PriceResponses :
          /\ fetchETHPrice(resp) <= 0 \/ ~ValidGridConfig(ig[c].centerPrice, gridLevelCount)
          /\ lastETHPrice' = fetchETHPrice(resp)
    /\ ig' = [ig EXCEPT ![c] = NoFrame]
    /\ Continue(c, TRUE)
    /\ UNCHANGED <<levels, json, scall, paperTrading, signedTx, paperWallet, wcall, gridLevelCount, configuredBasePrice, duneConfigured, grid, basePrice,
                   tradesExecuted, running, tk, srRecord, botRef, app>>

\* ============================================================ tick

\* a tick taken without waiting for the execution of the tick before it
tickUnawaited ==
    /\ tpc \in {"fetching", "executing"}
    /\ \E resp \in PriceResponses :
          LET currentPrice == fetchETHPrice(resp)
              pos == findTriggeredLevel(currentPrice, grid)
          IN  /\ lastETHPrice' = currentPrice
              /\ IF currentPrice <= 0 \/ pos = 0
                 THEN tpc' = "sleeping" /\ tk' = NoTick
                 ELSE /\ tpc' = "executing"
                      /\ tk' = [price |-> currentPrice,
                                level |-> [pos |-> pos, index |-> grid[pos].index,
                                           side |-> grid[pos].side, stale |-> FALSE],
                                quantity |-> grid[pos].quantity,
                                accepted |-> PriceAccepted(resp),
                                reset |-> 0 - 1, failed |-> FALSE,
                                effects |-> << >>]
    /\ UNCHANGED <<levels, json, scall, paperTrading, signedTx, paperWallet, wcall, gridLevelCount, configuredBasePrice, duneConfigured, grid, basePrice,
                   tradesExecuted, running, ig, spc, fr, srRecord,
                   botRef, app>>

\* fetchETHPrice() returned; findTriggeredLevel(); executeTrade() is dispatched
tick ==
    /\ tpc = "fetching"
    /\ \E resp \in PriceResponses :
          LET currentPrice == fetchETHPrice(resp)
              pos == findTriggeredLevel(currentPrice, grid)
          IN  /\ lastETHPrice' = currentPrice
              /\ IF currentPrice <= 0 \/ pos = 0
                 THEN tpc' = "sleeping" /\ tk' = NoTick
                 ELSE /\ tpc' = "executing"
                      /\ tk' = [price |-> currentPrice,
                                level |-> [pos |-> pos, index |-> grid[pos].index,
                                           side |-> grid[pos].side, stale |-> FALSE],
                                quantity |-> grid[pos].quantity,
                                accepted |-> PriceAccepted(resp),
                                reset |-> 0 - 1, failed |-> FALSE,
                                effects |-> << >>]
    /\ UNCHANGED <<levels, json, scall, paperTrading, signedTx, paperWallet, wcall, gridLevelCount, configuredBasePrice, duneConfigured, grid, basePrice,
                   tradesExecuted, running, ig, spc, fr, srRecord,
                   botRef, app>>

\* the fill marked on every unfilled level of the side of the held level
MarkFilledSide(level, g) ==
    IF level.stale THEN g
    ELSE [k \in 1..Len(g) |->
             IF g[k].side = level.side THEN [g[k] EXCEPT !.filled = TRUE] ELSE g[k]]

\* level.filled = true, on the level object the tick holds
MarkFilled(level, g) ==
    IF level.stale THEN g ELSE [g EXCEPT ![level.pos].filled = TRUE]

\* the level maybeCreateOppositeLevel re-arms ("Reset grid level ..."), or -1
ResetIndex(filledLevel, g) ==
    LET oppositeIndex == getOppositeLevelIndex(filledLevel, Len(g))
    IN  IF oppositeIndex # 0 - 1 /\ g[oppositeIndex + 1].filled
        THEN oppositeIndex ELSE 0 - 1

\* maybeCreateOppositeLevel() that turns the level it re-arms to the other side
maybeCreateOppositeLevelFlipped(filledLevel, g) ==
    IF ResetIndex(filledLevel, g) # 0 - 1
    THEN [g EXCEPT ![ResetIndex(filledLevel, g) + 1].filled = FALSE,
                   ![ResetIndex(filledLevel, g) + 1].side =
                       IF filledLevel.side = "buy" THEN "sell" ELSE "buy"]
    ELSE g

maybeCreateOppositeLevel(filledLevel, g) ==
    IF ResetIndex(filledLevel, g) # 0 - 1
    THEN [g EXCEPT ![ResetIndex(filledLevel, g) + 1].filled = FALSE]
    ELSE g

\* what saveState() writes of a ladder and a trade count
SaveState(g, n) ==
    [op |-> "saveState", grid |-> g, tradesExecuted |-> n, gridLevel |-> 0 - 1]

\* what historyStore.recordTrade() is handed of a level
RecordTrade(level) ==
    [op |-> "recordTrade", grid |-> << >>, tradesExecuted |-> 0 - 1,
     gridLevel |-> level.index]

\* the tail of executeBuy/executeSell with the opposite level reset before
\* the first saveState
FilledResetFirst ==
    /\ tradesExecuted < MaxTrades
    /\ grid' = maybeCreateOppositeLevel(tk.level, MarkFilled(tk.level, grid))
    /\ tradesExecuted' = tradesExecuted + 1
    /\ tk' = [tk EXCEPT !.reset = ResetIndex(tk.level, MarkFilled(tk.level, grid)),
                        !.effects = <<SaveState(grid', tradesExecuted + 1),
                                      RecordTrade(tk.level)>>]

\* the tail of executeBuy/executeSell once the swap resolved: fill, count,
\* saveState, historyStore.recordTrade, maybeCreateOppositeLevel (and its
\* saveState when it reset a level); tk.effects lists what was written, in
\* the order of the calls
Filled ==
    /\ tradesExecuted < MaxTrades
    /\ grid' = maybeCreateOppositeLevel(tk.level, MarkFilled(tk.level, grid))
    /\ tradesExecuted' = tradesExecuted + 1
    /\ tk' = [tk EXCEPT !.reset = ResetIndex(tk.level, MarkFilled(tk.level, grid)),
                        !.effects =
                            <<SaveState(MarkFilled(tk.level, grid), tradesExecuted + 1),
                              RecordTrade(tk.level)>>
                            \o IF ResetIndex(tk.level, MarkFilled(tk.level, grid)) # 0 - 1
                               THEN <<SaveState(grid', tradesExecuted + 1)>>
                               ELSE << >>]

\* signAndSend() that signs and broadcasts in either mode
signAndSendAlways == TRUE

\* signAndSend() resolved: in paper mode the transaction went through
\* eth_call only, in live mode it was signed and broadcast
signAndSend == IF paperTrading THEN signedTx ELSE TRUE

\* the wallet the paper branch leaves when the execution succeeds
PaperTraded ==
    IF paperTrading
    THEN \E slippage \in Slippages, gasCost \in GasCosts :
            LET r == PaperTrade(tk.level.side, paperWallet, tk.quantity, tk.price,
                                slippage, gasCost)
            IN  /\ paperWallet.trades < MaxPaperTrades
                /\ ~r.threw /\ paperWallet' = r.wallet
    ELSE paperWallet' = paperWallet

executeBuy ==
    /\ tpc = "executing" /\ tk.level.side = "buy"
    /\ PaperTraded
    /\ signedTx' = signAndSend
    /\ Filled
    /\ tpc' = "cooldown"
    /\ UNCHANGED <<levels, json, scall, paperTrading, wcall, gridLevelCount, configuredBasePrice, duneConfigured, basePrice, lastETHPrice,
                   running, ig, spc, fr, srRecord, botRef, app>>

\* executeSell() followed by no cooldown
executeSellNoCooldown ==
    /\ tpc = "executing" /\ tk.level.side = "sell"
    /\ PaperTraded
    /\ signedTx' = signAndSend
    /\ Filled
    /\ tpc' = "sleeping"
    /\ UNCHANGED <<levels, json, scall, paperTrading, wcall, gridLevelCount, configuredBasePrice, duneConfigured, basePrice, lastETHPrice,
                   running, ig, spc, fr, srRecord, botRef, app>>

executeSell ==
    /\ tpc = "executing" /\ tk.level.side = "sell"
    /\ PaperTraded
    /\ signedTx' = signAndSend
    /\ Filled
    /\ tpc' = "cooldown"
    /\ UNCHANGED <<levels, json, scall, paperTrading, wcall, gridLevelCount, configuredBasePrice, duneConfigured, basePrice, lastETHPrice,
                   running, ig, spc, fr, srRecord, botRef, app>>

\* the execution threw with level.filled = true already set before the swap
executeTradeFailedMarked ==
    /\ tpc = "executing"
    /\ tpc' = "sleeping"
    /\ tk' = [tk EXCEPT !.failed = TRUE]
    /\ grid' = MarkFilled(tk.level, grid)
    /\ UNCHANGED <<levels, json, scall, paperTrading, signedTx, paperWallet, wcall, gridLevelCount, configuredBasePrice, duneConfigured, basePrice,
                   lastETHPrice, tradesExecuted, running, ig, spc,
                   fr, srRecord, botRef, app>>

\* executeBuy/executeSell rethrew; tick() logs "Trade execution failed".  In
\* paper mode the balance check threw, or the simulated swap threw with the
\* wallet updated; in live mode the swap threw before or after it was signed.
executeTradeFailed ==
    /\ tpc = "executing"
    /\ tpc' = "sleeping"
    /\ tk' = [tk EXCEPT !.failed = TRUE]
    /\ IF paperTrading
       THEN /\ \E slippage \in Slippages, gasCost \in GasCosts :
                  LET r == PaperTrade(tk.level.side, paperWallet, tk.quantity,
                                      tk.price, slippage, gasCost)
                  IN  /\ r.threw \/ paperWallet.trades < MaxPaperTrades
                      /\ paperWallet' = r.wallet
            /\ signedTx' = signedTx
       ELSE /\ paperWallet' = paperWallet
            /\ signedTx' \in {signedTx, signAndSend}
    /\ UNCHANGED <<levels, json, scall, paperTrading, wcall, gridLevelCount, configuredBasePrice, duneConfigured, grid, basePrice,
                   lastETHPrice, tradesExecuted, running, ig, spc,
                   fr, srRecord, botRef, app>>

\* await sleepSeconds(this.postTradeCooldownSeconds) is over
cooldown ==
    /\ tpc = "cooldown"
    /\ tpc' = "sleeping"
    /\ tk' = NoTick
    /\ UNCHANGED <<levels, json, scall, paperTrading, signedTx, paperWallet, wcall, gridLevelCount, configuredBasePrice, duneConfigured, grid, basePrice,
                   lastETHPrice, tradesExecuted, running, ig,
                   spc, fr, srRecord, botRef, app>>

\* await sleepSeconds(this.priceCheckIntervalSeconds) is over
sleepSeconds ==
    /\ tpc = "sleeping"
    /\ tpc' = EnterLoop
    /\ tk' = NoTick
    /\ UNCHANGED <<levels, json, scall, paperTrading, signedTx, paperWallet, wcall, gridLevelCount, configuredBasePrice, duneConfigured, grid, basePrice,
                   lastETHPrice, tradesExecuted, running, ig,
                   spc, fr, srRecord, botRef, app>>

\* ============================================================ SRScheduler

Abs(x) == IF x < 0 THEN 0 - x ELSE x

\* the comparison taken as changePercent > thresholdPercent
checkSignificantChangeStrict(midpoint, previous) ==
    IF previous = NoRecord THEN TRUE
    ELSE Abs(midpoint - previous.midpoint) * 100
            > srChangeThreshold * previous.midpoint

\* srController.checkSignificantChange(newSR, thresholdPercent).hasChanged;
\* |new - previous| / previous * 100 >= threshold, without the division
checkSignificantChange(midpoint, previous) ==
    IF previous = NoRecord THEN TRUE
    ELSE Abs(midpoint - previous.midpoint) * 100
            >= srChangeThreshold * previous.midpoint

\* a firing that waits until the engine is between two ticks
fireBetweenTicks ==
    /\ app = "up" /\ duneConfigured /\ tpc = "sleeping" /\ spc = "idle"
    /\ spc' = "fetching"
    /\ UNCHANGED <<levels, json, scall, paperTrading, signedTx, paperWallet, wcall, gridLevelCount, configuredBasePrice, duneConfigured, grid, basePrice,
                   lastETHPrice, tradesExecuted, running, tpc, tk, ig, fr,
                   srRecord, botRef, app>>

\* start() fires once at once, the cron job fires every hour
fire ==
    /\ app = "up" /\ duneConfigured /\ tpc # "new" /\ spc = "idle"
    /\ spc' = "fetching"
    /\ UNCHANGED <<levels, json, scall, paperTrading, signedTx, paperWallet, wcall, gridLevelCount, configuredBasePrice, duneConfigured, grid, basePrice,
                   lastETHPrice, tradesExecuted, running, tpc, tk, ig, fr,
                   srRecord, botRef, app>>

\* duneApi.fetchSupportResistance(true) returned; getBotInstance()
fetched ==
    /\ spc = "fetching"
    /\ \E midpoint \in Midpoints :
          fr' = [NoFiring EXCEPT !.sr = midpoint, !.bot = botRef]
    /\ spc' = "checking"
    /\ UNCHANGED <<levels, json, scall, paperTrading, signedTx, paperWallet, wcall, gridLevelCount, configuredBasePrice, duneConfigured, grid, basePrice,
                   lastETHPrice, tradesExecuted, running, tpc, tk, ig,
                   srRecord, botRef, app>>

\* any await of the firing threw; the catch of fetchAndProcessSR logs it
failed ==
    /\ spc \in {"fetching", "checking", "recording"}
    /\ spc' = "idle"
    /\ fr' = NoFiring
    /\ UNCHANGED <<levels, json, scall, paperTrading, signedTx, paperWallet, wcall, gridLevelCount, configuredBasePrice, duneConfigured, grid, basePrice,
                   lastETHPrice, tradesExecuted, running, tpc, tk, ig,
                   srRecord, botRef, app>>

\* the scheduler that recalculates on every firing
shouldRecalculateAlways(midpoint, previous, bot, g, currentPrice) == TRUE

\* the decision logic of fetchAndProcessSR, conditions 1 to 3
shouldRecalculate(midpoint, previous, bot, g, currentPrice) ==
    LET c1 == checkSignificantChange(midpoint, previous)
        c2 == IF bot /\ Len(g) > 0 /\ currentPrice > 0
              THEN isPriceOutsideGrid(currentPrice, g) ELSE FALSE
        c3 == IF bot /\ Len(g) > 0
              THEN areAllSideFilled(g, "buy") \/ areAllSideFilled(g, "sell")
              ELSE FALSE
    IN  c1 \/ c2 \/ c3

\* checkSignificantChange() returned; bot.grid and bot.lastETHPrice are read
decide ==
    /\ spc = "checking"
    /\ fr' = [fr EXCEPT
                !.should = shouldRecalculate(fr.sr, srRecord, fr.bot, grid,
                                             lastETHPrice),
                !.readGrid = IF fr.bot THEN grid ELSE << >>,
                !.readPrice = IF fr.bot THEN lastETHPrice ELSE 0,
                !.readPrev = srRecord]
    /\ spc' = "recording"
    /\ UNCHANGED <<levels, json, scall, paperTrading, signedTx, paperWallet, wcall, gridLevelCount, configuredBasePrice, duneConfigured, grid, basePrice,
                   lastETHPrice, tradesExecuted, running, tpc, tk, ig,
                   srRecord, botRef, app>>

\* recordSR() returned; onGridRecalculate(sr) calls bot.initializeGrid()
recordSR ==
    /\ spc = "recording"
    /\ srRecord' = [midpoint |-> fr.sr, gridRecalculated |-> fr.should]
    /\ IF fr.should /\ botRef
       THEN /\ spc' = "rebuild" /\ ig' = StartInitializeGrid("scheduler")
            /\ fr' = [NoFiring EXCEPT !.sr = fr.sr, !.should = TRUE]
       ELSE spc' = "idle" /\ ig' = ig /\ fr' = NoFiring
    /\ UNCHANGED <<levels, json, scall, paperTrading, signedTx, paperWallet, wcall, gridLevelCount, configuredBasePrice, duneConfigured, grid, basePrice,
                   lastETHPrice, tradesExecuted, running, tpc, tk, botRef, app>>

\* ============================================================ application

\* SIGINT/SIGTERM: srScheduler.stop(); bot.shutdown(), which sets running to
\* false and flushes the history store; bot = null
shutdown ==
    /\ app = "up" /\ tpc # "new"
    /\ app' = "stopping"
    /\ running' = FALSE
    /\ botRef' = FALSE
    /\ UNCHANGED <<levels, json, scall, paperTrading, signedTx, paperWallet, wcall, gridLevelCount, configuredBasePrice, duneConfigured, grid, basePrice,
                   lastETHPrice, tradesExecuted, tpc, tk, ig, spc, fr, srRecord>>

\* the server and the pool are closed: process.exit(0).  What run(), a tick,
\* a firing or a rebuild still had to do is never done.
exit ==
    /\ app = "stopping"
    /\ app' = "exited"
    /\ tpc' = IF tpc \in {"done", "crashed"} THEN tpc ELSE "killed"
    /\ spc' = IF spc = "idle" THEN spc ELSE "killed"
    /\ ig' = [c \in Callers |-> IF ig[c].st = "none" THEN NoFrame ELSE KilledFrame]
    /\ tk' = NoTick
    /\ fr' = NoFiring
    /\ UNCHANGED <<levels, json, scall, paperTrading, signedTx, paperWallet, wcall, gridLevelCount, configuredBasePrice, duneConfigured, grid, basePrice,
                   lastETHPrice, tradesExecuted, running, srRecord, botRef>>

Next ==
    \/ run
    \/ \E c \in Callers : fetchSupportResistance(c)
    \/ \E c \in Callers : fetchSupportResistanceFailed(c)
    \/ \E c \in Callers : createFallbackSR(c)
    \/ \E c \in Callers : initializeGrid(c)
    \/ \E c \in Callers : initializeGridThrew(c)
    \/ tick
    \/ executeBuy
    \/ executeSell
    \/ executeTradeFailed
    \/ cooldown
    \/ sleepSeconds
    \/ fire
    \/ fetched
    \/ failed
    \/ decide
    \/ recordSR
    \/ shutdown
    \/ exit

Spec == Init /\ [][Next]_vars

\* ============================================================ recalculation

\* the three conditions as the decision tree states them
SignalDrift(midpoint, previous) ==
    \/ previous = NoRecord
    \/ Abs(midpoint - previous.midpoint) * 100 >= srChangeThreshold * previous.midpoint

Breakout(price, g) ==
    /\ Len(g) >= 1 /\ price > 0
    /\ \/ \A k \in 1..Len(g) : price < g[k].price
       \/ \A k \in 1..Len(g) : price > g[k].price

Exhaustion(g) ==
    /\ Len(g) >= 1
    /\ \/ \A k \in 1..Len(g) : g[k].side = "buy" => g[k].filled
       \/ \A k \in 1..Len(g) : g[k].side = "sell" => g[k].filled

\* some condition holds in what the firing read
AnyConditionRead ==
    \/ SignalDrift(fr.sr, fr.readPrev)
    \/ Breakout(fr.readPrice, fr.readGrid)
    \/ Exhaustion(fr.readGrid)

\* the firing, past its decision, goes on or ends
FiringDecided == spc = "recording" /\ spc' \in {"idle", "rebuild"}

\* C1: a firing whose S/R fetch succeeded and that read the engine state
\* invokes the engine's rebuild if and only if signal drift, breakout or
\* exhaustion holds in the state it read.
C1_RebuildIffAnyCondition ==
    [][(FiringDecided /\ fr.bot /\ botRef)
          => ((spc' = "rebuild") <=> AnyConditionRead)]_vars

\* C2: a step of the scheduler outside the engine's rebuild leaves the
\* ladder, basePrice and tradesExecuted as they were, and the rebuild is
\* entered only when one of the three conditions held in the state read.
C2_SchedulerOnlyRebuilds ==
    [][(spc' # spc /\ spc # "rebuild")
          => /\ UNCHANGED <<grid, basePrice, tradesExecuted>>
             /\ spc' = "rebuild" => AnyConditionRead]_vars

\* a firing that found the grid stable has ended and left a ladder behind
C2_StableFiringEnded ==
    /\ spc = "idle" /\ srRecord # NoRecord /\ ~srRecord.gridRecalculated
    /\ Len(grid) > 0 /\ tradesExecuted > 0

\* C3: the ladder is never replaced between a tick's trigger detection and
\* the end of that tick's execution.
C3_TickExcludesRebuild == ~(tpc = "executing" /\ tk.level.stale)

\* ============================================================ centering

\* an initializeGrid() of caller c stores its new ladder in this step
GridBuilt(c) ==
    /\ ig[c].st = "price" /\ ig'[c].st = "none"
    /\ lastETHPrice' > 0 /\ ValidGridConfig(ig[c].centerPrice, gridLevelCount)

\* C4: with no base price configured, a rebuild the scheduler triggered
\* leaves basePrice at the midpoint of that firing's signal and the ladder
\* built around it.
C4_RebuildCentersOnSignal ==
    [][(configuredBasePrice = 0 /\ GridBuilt("scheduler"))
          => /\ basePrice' = fr.sr
             /\ grid' = calculateGridLevels(fr.sr, gridLevelCount)]_vars

\* C5: with a non-zero base price configured, every build and rebuild
\* centers the ladder on the configured base price.
C5_BuildCentersOnConfigured ==
    [][(configuredBasePrice # 0 /\ \E c \in Callers : GridBuilt(c))
          => /\ basePrice' = configuredBasePrice
             /\ grid' = calculateGridLevels(configuredBasePrice, gridLevelCount)]_vars

\* ============================================================ fills

\* the step in which an execution marks its level filled
FillStep == tpc = "executing" /\ tpc' = "cooldown"

\* index of the adjacent level on the scan's other side of a filled level
Adjacent(level) ==
    IF level.side = "buy" THEN level.index + 1 ELSE level.index - 1

\* the rule proper: the adjacent level inside the ladder ends unfilled, and
\* no level but it and the level just filled changes
ResetRule ==
    FillStep =>
        /\ Len(grid') = Len(grid)
        /\ Adjacent(tk.level) \in 0..(Len(grid) - 1)
              => ~grid'[Adjacent(tk.level) + 1].filled
        /\ \A k \in 1..Len(grid) :
              (k # Adjacent(tk.level) + 1 /\ k # tk.level.pos) => grid'[k] = grid[k]
        /\ \A k \in 1..Len(grid) :
              [grid'[k] EXCEPT !.filled = FALSE] = [grid[k] EXCEPT !.filled = FALSE]

\* filling the topmost Sell level re-arms nothing
TopmostSellResetsNothing ==
    (FillStep /\ tk.level.side = "sell" /\ tk.level.index = Len(grid) - 1)
        => \A k \in 1..Len(grid) : grid[k].filled => grid'[k].filled

C7_ResetOtherSide ==
    [][FillStep
          => \A k \in 1..Len(grid) :
                (grid[k].filled /\ ~grid'[k].filled) => grid[k].side # tk.level.side]_vars

\* C8: a tick whose price fetch failed or was rejected by the sanity bound
\* fills no level, and a rejected price is never the last observed price.
C8_RejectedFetchSkipsTick ==
    /\ [](lastETHPrice = 0 \/ (lastETHPrice >= PRICE_MIN /\ lastETHPrice <= PRICE_MAX))
    /\ [][FillStep => tk.accepted]_vars

\* ============================================================ trigger detector

\* level k of g is unfilled and crossed by price
Crossed(price, g, k) ==
    /\ ~g[k].filled
    /\ \/ g[k].side = "buy" /\ price <= g[k].price
       \/ g[k].side = "sell" /\ price >= g[k].price

\* k is what the detector is to return for price on g (0: nothing)
FirstCrossed(price, g, k) ==
    IF k = 0
    THEN \A j \in 1..Len(g) : ~Crossed(price, g, j)
    ELSE /\ k \in 1..Len(g) /\ Crossed(price, g, k)
         /\ \A j \in 1..Len(g) : Crossed(price, g, j) => g[k].index <= g[j].index

\* C9: findTriggeredLevel returns the unfilled level of smallest index that
\* the price crosses, nothing when there is none, and the detection of a
\* tick selects that level of the live ladder without changing the ladder.
C9_FindTriggeredFirstUnfilled ==
    /\ [](\A price \in Prices :
             FirstCrossed(price, grid, findTriggeredLevel(price, grid)))
    /\ [][(tpc = "fetching" /\ tpc' \in {"sleeping", "executing"})
             => /\ grid' = grid
                /\ lastETHPrice' > 0 =>
                      FirstCrossed(lastETHPrice', grid,
                                   IF tpc' = "executing" THEN tk'.level.pos ELSE 0)]_vars

\* a tick selected a level while another crossed level stayed unfilled
C9_SelectedAmongSeveral ==
    /\ tpc = "executing" /\ ~tk.level.stale
    /\ \E j \in 1..Len(grid) : j # tk.level.pos /\ Crossed(tk.price, grid, j)
    /\ \E j \in 1..Len(grid) : j < tk.level.pos /\ grid[j].filled

\* the level a tick in execution holds, in the ladder it was selected from
Held == tpc = "executing" /\ ~tk.level.stale

\* C10 as stated: the selected level has no nearer crossed unfilled level of
\* its own side, Buy or Sell.
C10_NoNearerUnfilled ==
    Held => \A j \in 1..Len(grid) :
               (grid[j].side = tk.level.side /\ Crossed(tk.price, grid, j))
                  => IF tk.level.side = "buy"
                     THEN grid[j].price <= grid[tk.level.pos].price
                     ELSE grid[j].price >= grid[tk.level.pos].price

\* C10 as amended: the selected level is the lowest-priced crossed unfilled
\* level; a selected Sell has no nearer crossed unfilled Sell, a selected
\* Buy has no more extreme crossed unfilled Buy.
C10_LowestPricedFirst ==
    Held => \A j \in 1..Len(grid) :
               Crossed(tk.price, grid, j)
                  => grid[j].price >= grid[tk.level.pos].price

\* the outermost Buy selected while a nearer crossed Buy is unfilled
C10_ExtremeBuyFirst ==
    /\ Held /\ tk.level.side = "buy"
    /\ \E j \in 1..Len(grid) :
          /\ grid[j].side = "buy" /\ Crossed(tk.price, grid, j)
          /\ grid[j].price > grid[tk.level.pos].price

\* ============================================================ one fill per tick

\* C11: a level becomes filled only in the fill step of the tick that holds
\* it, it is the level that tick selected, and an execution is entered only
\* from a tick's detection: a tick fills at most one level, and the other
\* levels its price crosses stay unfilled.
C11_OneFillPerTick ==
    [][/\ \A k \in 1..Len(grid) :
             (k <= Len(grid') /\ ~grid[k].filled /\ grid'[k].filled)
                => (FillStep /\ ~tk.level.stale /\ k = tk.level.pos)
       /\ (tpc' = "executing" /\ tpc # "executing") => tpc = "fetching"
       /\ FillStep => tradesExecuted' = tradesExecuted + 1]_vars

\* a tick filled its level and left another crossed level unfilled
C11_CrossedLevelLeft ==
    /\ tpc = "cooldown" /\ ~tk.level.stale
    /\ tk.level.pos <= Len(grid) /\ grid[tk.level.pos].filled
    /\ \E j \in 1..Len(grid) : j # tk.level.pos /\ Crossed(tk.price, grid, j)

\* ============================================================ failed execution

\* the step in which an execution ends in failure
TradeFailed == tpc = "executing" /\ tpc' = "sleeping"

\* a failed execution changes no level and no counter, and the loop goes on
FailureLeavesLevel ==
    TradeFailed => /\ grid' = grid
                   /\ tradesExecuted' = tradesExecuted
                   /\ tpc' = "sleeping"

\* C12 as stated: a failed execution leaves the level, the ladder and
\* tradesExecuted unchanged, the loop goes on, and detection at any price
\* that still crosses the level selects that same level again.
C12_FailedLevelReselected ==
    [][/\ FailureLeavesLevel
       /\ (TradeFailed /\ ~tk.level.stale)
             => \A price \in Prices :
                   Crossed(price, grid', tk.level.pos)
                      => findTriggeredLevel(price, grid') = tk.level.pos]_vars

\* C12 as amended: a failed execution leaves the level, the ladder and
\* tradesExecuted unchanged and the loop goes on; detection at the same
\* price selects the same level again, and at another price that still
\* crosses it selects it unless a lower-index unfilled level is crossed too.
C12_FailedLevelStaysArmed ==
    [][/\ FailureLeavesLevel
       /\ (TradeFailed /\ ~tk.level.stale)
             => /\ findTriggeredLevel(tk.price, grid') = tk.level.pos
                /\ \A price \in Prices :
                      Crossed(price, grid', tk.level.pos)
                         => \/ findTriggeredLevel(price, grid') = tk.level.pos
                            \/ \E j \in 1..(tk.level.pos - 1) :
                                  /\ Crossed(price, grid', j)
                                  /\ findTriggeredLevel(price, grid') = j]_vars

\* an execution failed and its level is what detection selects again
C12_FailedLevelArmed ==
    /\ tpc = "sleeping" /\ tk.failed /\ ~tk.level.stale
    /\ tk.level.pos <= Len(grid) /\ ~grid[tk.level.pos].filled
    /\ grid[tk.level.pos].index = tk.level.index
    /\ findTriggeredLevel(tk.price, grid) = tk.level.pos

\* ============================================================ ladder builder

\* g is unfilled, strictly ascending by price and indexed by position
FreshAscending(g) ==
    /\ \A k \in 1..Len(g) : ~g[k].filled /\ g[k].index = k - 1
    /\ \A k \in 1..(Len(g) - 1) : g[k].price < g[k + 1].price

\* the ladder the claim describes for (center, n)
LadderStrictSides(g, center, n) ==
    /\ Len(g) \in {n, n - 1}
    /\ FreshAscending(g)
    /\ \A k \in 1..Len(g) :
          /\ g[k].side = "buy" => g[k].price < center
          /\ g[k].side = "sell" => g[k].price > center

\* the ladder with the center itself a Sell level when n is odd
LadderCenterSell(g, center, n) ==
    /\ Len(g) = n
    /\ FreshAscending(g)
    /\ \A k \in 1..Len(g) :
          /\ g[k].side \in {"buy", "sell"}
          /\ g[k].side = "buy" <=> k <= n \div 2
          /\ g[k].side = "buy" => g[k].price < center
          /\ g[k].side = "sell" => g[k].price >= center
          /\ g[k].price = center <=> (n % 2 = 1 /\ k = n \div 2 + 1)

\* C13 as stated: a build returns N (or N-1) levels, unfilled, strictly
\* ascending, indexed by position, Buy levels strictly below the center and
\* Sell levels strictly above it, for even and for odd N.
C13_LadderStrictlyAroundCenter ==
    [][\A c \in Callers :
          GridBuilt(c) => LadderStrictSides(grid', ig[c].centerPrice, gridLevelCount)]_vars

\* C13 as amended: a build returns exactly N levels, unfilled, strictly
\* ascending, indexed by position, the lower N/2 (rounded down) Buy levels
\* strictly below the center, the others Sell levels at or above it: for
\* even N strictly above, for odd N the lowest Sell level is the center.
C13_LadderAroundCenter ==
    [][\A c \in Callers :
          GridBuilt(c) => LadderCenterSell(grid', ig[c].centerPrice, gridLevelCount)]_vars

\* a ladder of odd size was built in this run, its center a Sell level
C13_OddLadderBuilt ==
    /\ tpc # "new" /\ tradesExecuted = 0 /\ gridLevelCount % 2 = 1
    /\ Len(grid) = gridLevelCount
    /\ \E k \in 1..Len(grid) : grid[k].side = "sell" /\ grid[k].price = basePrice

\* ============================================================ conditions

\* the step in which a firing takes its decision
Decision == spc = "checking" /\ spc' = "recording"

\* a persisted record with the given midpoint
Persisted(midpoint) == [midpoint |-> midpoint, gridRecalculated |-> FALSE]

BotGrid == IF fr.bot THEN grid ELSE << >>

\* C15: with neither drift nor exhaustion, a firing decides to rebuild
\* exactly when a ladder of at least one level exists and the observed
\* price is strictly below its lowest or strictly above its highest level
\* price; a price equal to either, or inside the range, does not fire.
C15_BreakoutStrictlyOutside ==
    /\ [][(Decision /\ ~SignalDrift(fr.sr, srRecord) /\ ~Exhaustion(BotGrid))
             => (fr'.should <=> Breakout(lastETHPrice, BotGrid))]_vars
    /\ [](Len(grid) >= 1 =>
             /\ \A price \in Prices :
                   isPriceOutsideGrid(price, grid) <=> Breakout(price, grid)
             /\ \A k \in 1..Len(grid) : ~isPriceOutsideGrid(grid[k].price, grid))

\* a firing found the price equal to the highest level price and no breakout
C15_PriceOnHighestLevel ==
    /\ spc = "recording" /\ ~fr.should /\ fr.bot
    /\ Len(fr.readGrid) >= 1
    /\ fr.readPrice = fr.readGrid[Len(fr.readGrid)].price

\* every level of the side is filled, and the side has a level
SideExhausted(g, side) ==
    /\ \E k \in 1..Len(g) : g[k].side = side
    /\ \A k \in 1..Len(g) : g[k].side = side => g[k].filled

\* C16: with neither drift nor breakout, a firing decides to rebuild
\* exactly when every Buy level of the ladder is filled or every Sell level
\* is filled, each side on its own.
C16_ExhaustionEitherSide ==
    /\ [][(Decision /\ ~SignalDrift(fr.sr, srRecord)
                    /\ ~Breakout(lastETHPrice, BotGrid))
             => (fr'.should <=> (SideExhausted(BotGrid, "buy")
                                    \/ SideExhausted(BotGrid, "sell")))]_vars
    /\ [](\A side \in {"buy", "sell"} :
             areAllSideFilled(grid, side) <=> SideExhausted(grid, side))

\* a firing decided to rebuild on the Buy side alone, a Sell level unfilled
C16_BuySideAloneFired ==
    /\ spc = "recording" /\ fr.should
    /\ ~SignalDrift(fr.sr, fr.readPrev) /\ ~Breakout(fr.readPrice, fr.readGrid)
    /\ SideExhausted(fr.readGrid, "buy")
    /\ \E k \in 1..Len(fr.readGrid) :
          fr.readGrid[k].side = "sell" /\ ~fr.readGrid[k].filled

\* ============================================================ SR records

\* a firing past its S/R fetch leaves fetchAndProcessSR's persistence phase
FiringEnds == spc \in {"checking", "recording"} /\ spc' \in {"idle", "rebuild"}

\* C17: a firing whose S/R fetch succeeded ends having written one SR
\* record, the record of its signal, tagged with whether one of the three
\* conditions held in the state it read; nothing else writes a record.
C17_OneTaggedRecordPerFiring ==
    [][/\ FiringEnds
          => /\ spc = "recording"
             /\ srRecord' = [midpoint |-> fr.sr,
                             gridRecalculated |-> AnyConditionRead]
       /\ srRecord' # srRecord => FiringEnds]_vars

\* a condition holds for the firing: the decision once taken, before it
\* the conditions that need no SR record
ConditionFired ==
    IF spc = "recording" THEN fr.should
    ELSE Breakout(lastETHPrice, BotGrid) \/ Exhaustion(BotGrid)

\* C18: a firing past its S/R fetch in which a condition fired does not end
\* without invoking the rebuild, whether or not reading or writing the SR
\* record failed, and it ends with the scheduler idle for the next firing.
C18_PersistenceFailureNotFatal ==
    [][FiringEnds
          => /\ (fr.bot /\ botRef /\ ConditionFired) => spc' = "rebuild"
             /\ spc' = "idle" => fr' = NoFiring]_vars

\* ============================================================ paper wallet calls

engineVars == <<levels, json, scall, paperTrading, signedTx, gridLevelCount, configuredBasePrice, duneConfigured, grid,
                basePrice, lastETHPrice, tradesExecuted, running, tpc, tk, ig,
                spc, fr, srRecord, botRef, app>>

\* a paper wallet constructed next to an engine that is not run
WalletInit ==
    /\ paperTrading = TRUE /\ Constructed
    /\ gridLevelCount = gridLevels /\ configuredBasePrice = 0
    /\ duneConfigured /\ grid = << >>

paperExecuteBuy ==
    /\ wcall.n < MaxCalls
    /\ \E usdcAmount \in UsdcAmounts, ethAmount \in EthAmounts :
          LET r == PaperWalletExecuteBuy(paperWallet, usdcAmount, ethAmount)
          IN  /\ paperWallet' = r.wallet
              /\ wcall' = [NoCall EXCEPT !.n = wcall.n + 1, !.op = "executeBuy",
                                         !.usdcAmount = usdcAmount,
                                         !.ethAmount = ethAmount,
                                         !.threw = r.threw]
    /\ UNCHANGED engineVars

paperExecuteSell ==
    /\ wcall.n < MaxCalls
    /\ \E ethAmount \in EthAmounts, usdcAmount \in UsdcAmounts :
          LET r == PaperWalletExecuteSell(paperWallet, ethAmount, usdcAmount)
          IN  /\ paperWallet' = r.wallet
              /\ wcall' = [NoCall EXCEPT !.n = wcall.n + 1, !.op = "executeSell",
                                         !.usdcAmount = usdcAmount,
                                         !.ethAmount = ethAmount,
                                         !.threw = r.threw]
    /\ UNCHANGED engineVars

paperDeductGas ==
    /\ wcall.n < MaxCalls
    /\ \E gasETH \in GasCosts :
          /\ paperWallet' = PaperWalletDeductGas(paperWallet, gasETH)
          /\ wcall' = [NoCall EXCEPT !.n = wcall.n + 1, !.op = "deductGas",
                                     !.ethAmount = gasETH]
    /\ UNCHANGED engineVars

paperRecordTrade ==
    /\ wcall.n < MaxCalls
    /\ paperWallet' = PaperWalletRecordTrade(paperWallet)
    /\ wcall' = [NoCall EXCEPT !.n = wcall.n + 1, !.op = "recordTrade"]
    /\ UNCHANGED engineVars

paperGetStats ==
    /\ wcall.n < MaxCalls
    /\ \E currentETHPrice \in Prices :
          wcall' = [NoCall EXCEPT
                       !.n = wcall.n + 1, !.op = "getStats",
                       !.currentETHPrice = currentETHPrice,
                       !.unrealizedPnL =
                           PaperWalletGetStats(paperWallet, currentETHPrice).unrealizedPnL]
    /\ UNCHANGED paperWallet
    /\ UNCHANGED engineVars

WalletNext ==
    \/ paperExecuteBuy
    \/ paperExecuteSell
    \/ paperDeductGas
    \/ paperRecordTrade
    \/ paperGetStats

WalletSpec == WalletInit /\ [][WalletNext]_vars

\* ============================================================ engine in either mode

\* the engine constructed in paper or in live mode, with no state file, a
\* configured base price and the Dune key set
ModeInit ==
    /\ paperTrading \in BOOLEAN /\ Constructed
    /\ gridLevelCount = gridLevels /\ configuredBasePrice # 0
    /\ duneConfigured /\ grid = << >>

\* the engine and the scheduler while the application is up
ModeNext ==
    \/ run
    \/ \E c \in Callers : fetchSupportResistance(c)
    \/ \E c \in Callers : fetchSupportResistanceFailed(c)
    \/ \E c \in Callers : createFallbackSR(c)
    \/ \E c \in Callers : initializeGrid(c)
    \/ \E c \in Callers : initializeGridThrew(c)
    \/ tick
    \/ executeBuy
    \/ executeSell
    \/ executeTradeFailed
    \/ cooldown
    \/ sleepSeconds
    \/ fire
    \/ fetched
    \/ failed
    \/ decide
    \/ recordSR

ModeSpec == ModeInit /\ [][ModeNext]_vars

\* the call of this step
Called(op) == wcall'.n = wcall.n + 1 /\ wcall'.op = op

\* C19: executeBuy throws exactly when the USDC balance is below the amount
\* asked and executeSell exactly when the ETH balance is; a call that throws
\* leaves balances, gas counter and trades as they were, a call that returns
\* debits one balance and credits the other by the amounts given.
C19_WalletChecksBalance ==
    [][/\ Called("executeBuy") =>
             /\ wcall'.threw <=> paperWallet.usdcBalance < wcall'.usdcAmount
             /\ wcall'.threw => paperWallet' = paperWallet
             /\ ~wcall'.threw =>
                   paperWallet' =
                      [paperWallet EXCEPT
                          !.usdcBalance = paperWallet.usdcBalance - wcall'.usdcAmount,
                          !.ethBalance = paperWallet.ethBalance + wcall'.ethAmount]
       /\ Called("executeSell") =>
             /\ wcall'.threw <=> paperWallet.ethBalance < wcall'.ethAmount
             /\ wcall'.threw => paperWallet' = paperWallet
             /\ ~wcall'.threw =>
                   paperWallet' =
                      [paperWallet EXCEPT
                          !.ethBalance = paperWallet.ethBalance - wcall'.ethAmount,
                          !.usdcBalance = paperWallet.usdcBalance + wcall'.usdcAmount]]_vars

\* a buy was refused on a wallet that had traded and paid gas before
C19_BuyRefused ==
    /\ wcall.op = "executeBuy" /\ wcall.threw
    /\ paperWallet.usdcBalance < wcall.usdcAmount
    /\ paperWallet.trades > 0 /\ paperWallet.totalGasSpent > 0

\* ============================================================ rebuild atomicity

\* a ladder without its fill flags
Rungs(g) == [k \in 1..Len(g) |-> [index |-> g[k].index, price |-> g[k].price,
                                   side |-> g[k].side]]

\* every center a ladder of this model can be built around
Centers ==
    (Midpoints \cup RawPrices \cup ConfiguredBasePrices
        \cup {state.basePrice : state \in UNION {Snapshots(n) : n \in LevelCounts}}) \ {0}

\* for each size, the ladders calculateGridLevels returns
WholeLadders ==
    [n \in LevelCounts |-> {Rungs(calculateGridLevels(center, n)) : center \in Centers}]

\* no ladder, or all the levels calculateGridLevels returns for one center
WholeLadder(g) == g = << >> \/ Rungs(g) \in WholeLadders[gridLevelCount]

\* initializeGrid() of this caller returns or throws in this step
RebuildEnds(c) == ig[c].st = "price" /\ ig'[c].st = "none"

\* initializeGrid() of this caller goes from one await to the next
RebuildGoesOn(c) == ig[c].st # "none" /\ ig'[c] # ig[c] /\ ~RebuildEnds(c)

\* C20: a rebuild that throws (invalid price, invalid configuration) leaves
\* the ladder as it was, no step of a rebuild before its last changes the
\* ladder, the last installs the whole new ladder or nothing, and the ladder
\* the trigger detector reads is at any time empty or the whole ladder of
\* one center.
C20_RebuildAllOrNothing ==
    [][/\ WholeLadder(grid) /\ WholeLadder(grid')
       /\ \A c \in Callers :
             /\ RebuildGoesOn(c) => grid' = grid
             /\ RebuildEnds(c) =>
                   \/ grid' = grid
                   \/ grid' = calculateGridLevels(ig[c].centerPrice, gridLevelCount)
             /\ (RebuildEnds(c) /\ (lastETHPrice' <= 0
                     \/ ~ValidGridConfig(ig[c].centerPrice, gridLevelCount)))
                   => grid' = grid
       /\ Rungs(grid') # Rungs(grid) => \E c \in Callers : RebuildEnds(c)]_vars

\* a firing recorded its decision to rebuild, the rebuild threw on the price,
\* and the ladder loaded at construction is there with its filled level
C20_FailedRebuildKeptLadder ==
    /\ app = "up" /\ botRef
    /\ spc = "idle" /\ srRecord.gridRecalculated
    /\ lastETHPrice <= 0
    /\ Len(grid) = gridLevelCount /\ grid[gridLevelCount \div 2].filled

\* ============================================================ one execution in flight

\* a trigger detection hands a level to executeTrade() in this step
Dispatched ==
    /\ tk' # tk
    /\ tk'.level.pos # 0 /\ ~tk'.level.stale
    /\ ~tk'.failed /\ tk'.reset = 0 - 1 /\ tk'.effects = << >>

\* C21: a level is dispatched for execution only by a tick taken while no
\* execution of an earlier tick is unresolved, so one execution at most is
\* in flight and no level is dispatched twice at the same time.
C21_OneExecutionInFlight ==
    [][Dispatched => /\ tpc = "fetching" /\ tpc' = "executing"
                     /\ tk = NoTick]_vars

\* a level is dispatched after a trade of this run was executed (the state
\* file holds one trade at most)
C21_SecondDispatch ==
    /\ tpc = "executing" /\ tradesExecuted >= 2
    /\ ~tk.level.stale /\ ~grid[tk.level.pos].filled

\* ============================================================ shutdown

\* C22: once shutdown() has set running to false no new tick is started, the
\* process exits only when run() and every rebuild have come to their end,
\* and no trade is recorded after the flush shutdown() made.
C22_CooperativeShutdown ==
    [][/\ (tpc' = "fetching" /\ tpc # "fetching") => running'
       /\ (app = "stopping" /\ app' = "exited") =>
             /\ tpc \in {"done", "crashed"}
             /\ \A c \in Callers : ig[c].st = "none"
       /\ app = "stopping" => tradesExecuted' = tradesExecuted]_vars

\* ============================================================ execution backend

\* C23: bot.paperTrading never changes; in paper mode no transaction is ever
\* signed and every executed trade is one more trade of the paper wallet; in
\* live mode there is no paper wallet at any time.
C23_BackendFixedByMode ==
    [][/\ paperTrading' = paperTrading
       /\ paperTrading =>
             /\ ~signedTx /\ ~signedTx'
             /\ tradesExecuted' # tradesExecuted =>
                   paperWallet'.trades = paperWallet.trades + 1
       /\ ~paperTrading => paperWallet = NoWallet /\ paperWallet' = NoWallet]_vars

\* a paper trade was executed: the wallet holds it, nothing was signed
C23_PaperTradeExecuted ==
    /\ paperTrading /\ tpc = "cooldown"
    /\ tradesExecuted = 1 /\ paperWallet.trades = 1
    /\ paperWallet # FreshWallet /\ ~signedTx

\* ============================================================ rebuild frame

\* a step of an initializeGrid() in flight
RebuildStep == \E c \in Callers : ig[c].st # "none" /\ ig'[c] # ig[c]

C25_CooldownAfterSuccessOnly ==
    [][/\ tradesExecuted' # tradesExecuted => tpc' = "cooldown"
       /\ (tpc = "cooldown" /\ tpc' # tpc) => tpc' \in {"sleeping", "killed"}
       /\ (tpc = "executing" /\ tpc' # tpc /\ tradesExecuted' = tradesExecuted)
             => tpc' \in {"sleeping", "killed"}
       /\ (tpc = "fetching" /\ tpc' \notin {"fetching", "executing"})
             => tpc' \in {"sleeping", "killed"}
       /\ (tpc' = "fetching" /\ tpc # "fetching")
             => tpc \in {"sleeping", "new", "init"}]_vars

\* a trade executed in this run is in its cooldown
C25_InCooldown ==
    /\ tpc = "cooldown" /\ tradesExecuted = 2
    /\ tk.level.side = "sell"

\* ============================================================ two loops

\* the engine waits on a price fetch or on a trade execution
TickWaits == tpc \in {"fetching", "executing"}

\* the scheduler firing waits on its S/R fetch
FiringWaits == spc = "fetching"

\* C26: while a firing waits on its S/R fetch the tick in flight can take
\* its next step, whichever it is; while a tick waits on its price fetch or
\* on its execution a firing can start and each of its steps up to the
\* record can be taken.
C26_LoopsDoNotBlock ==
    /\ (FiringWaits /\ tpc = "fetching") => ENABLED tick
    /\ (FiringWaits /\ tpc = "executing") => ENABLED executeTradeFailed
    /\ (FiringWaits /\ tpc = "cooldown") => ENABLED cooldown
    /\ (FiringWaits /\ tpc = "sleeping") => ENABLED sleepSeconds
    /\ (TickWaits /\ app = "up" /\ duneConfigured /\ spc = "idle") => ENABLED fire
    /\ (TickWaits /\ spc = "fetching") => ENABLED fetched
    /\ (TickWaits /\ spc = "checking") => ENABLED decide
    /\ (TickWaits /\ spc = "recording") => ENABLED recordSR

\* a tick waits on its execution and a firing on its S/R fetch, both in flight
C26_BothWaiting ==
    /\ app = "up" /\ tpc = "executing" /\ spc = "fetching"
    /\ tradesExecuted = 2

\* ============================================================ fallback signal

\* an initializeGrid() of caller c leaves its S/R step in this step
SignalStepEnds(c) == ig[c].st \in {"sr", "fbprice"} /\ ig'[c].st \notin {ig[c].st, "killed"}

\* an initializeGrid() of caller c that took the fallback returns or throws
FallbackBuildEnds(c) ==
    ig[c].st = "price" /\ ig[c].method = "fallback" /\ ig'[c].st = "none"

LadderCenters == {0 - 3000, 0, 3000}
LadderLevelCounts == {0, 1, 2, gridLevels}
LadderSpacings == {0 - gridSpacingPercent, 0, gridSpacingPercent}
LadderAmounts == {0 - amountPerGrid, 0, amountPerGrid}

\* build() ends by throwing out of calculateGridLevels
BuildRejected(c) ==
    /\ ig[c].st = "price"
    /\ ig'[c].st = "none"
    /\ lastETHPrice' > 0
    /\ ~ValidGridConfig(ig[c].centerPrice, gridLevelCount)

\* the builder throws exactly on a non-positive center, fewer than 2 levels,
\* a non-positive spacing or a non-positive amount
RejectedExactlyWhenInvalid ==
    \A centerPrice \in LadderCenters, levelCount \in LadderLevelCounts,
       spacingPercent \in LadderSpacings, amount \in LadderAmounts :
       (GridConfigError(centerPrice, levelCount, spacingPercent, amount) # "none")
          <=> \/ centerPrice <= 0
              \/ levelCount < 2
              \/ spacingPercent <= 0
              \/ amount <= 0

\* C28: the ladder builder throws, and returns no ladder, exactly when
\* centerPrice <= 0, levelCount < 2, spacingPercent <= 0 or amountPerLevel <= 0;
\* a build of the engine that reaches the builder with such a configuration
\* leaves the ladder it had, and the configuration fields, as they were.
C28_InvalidConfigRejected ==
    /\ []RejectedExactlyWhenInvalid
    /\ [][\A c \in Callers :
             /\ BuildRejected(c)
                   => /\ grid' = grid
                      /\ tradesExecuted' = tradesExecuted
                      /\ gridLevelCount' = gridLevelCount
             /\ (ig[c].st = "price" /\ ig'[c].st = "none" /\ grid' # grid)
                   => ValidGridConfig(ig[c].centerPrice, gridLevelCount)]_vars

\* with one level configured the run's build fetched a price, was rejected
\* by the builder and ended the run; the scheduler has not fired
C28_RejectedLevelCount ==
    /\ gridLevelCount < 2
    /\ tpc = "crashed"
    /\ lastETHPrice > 0
    /\ srRecord = NoRecord
    /\ spc = "idle"
    /\ grid = << >>

\* ------------------------------------------------------------------ C29
\* a paper execution went through: the wallet recorded one more trade
PaperExecuted == paperTrading /\ paperWallet'.trades = paperWallet.trades + 1

\* what deductGas took off the base balance in this step
GasDeducted == paperWallet'.totalGasSpent - paperWallet.totalGasSpent

\* what executeBuy / executeSell added to each balance in this step
BaseCredited == paperWallet'.ethBalance - paperWallet.ethBalance + GasDeducted
QuoteCredited == paperWallet'.usdcBalance - paperWallet.usdcBalance

\* amount * (1 - paperSlippagePercent / 100) <= received <= amount
WithinSlippage(received, amount) ==
    /\ received <= amount
    /\ (amount - received) * Unit <= amount * paperSlippagePercent

\* C29: the slippage of a paper trade is between 0 and paperSlippagePercent;
\* a Buy takes exactly quantity * price off the quote balance and adds to the
\* base balance between quantity * (1 - max) and quantity, a Sell takes
\* exactly quantity off the base balance and adds to the quote balance
\* between expected * (1 - max) and expected (gas is deducted besides).
C29_SlippageBounded ==
    /\ [](\A slippage \in Slippages : 0 <= slippage /\ slippage <= paperSlippagePercent)
    /\ [][PaperExecuted =>
             LET expected == tk.quantity * tk.price
             IN  /\ tk.quantity > 0 /\ tk.price > 0
                 /\ IF tk.level.side = "buy"
                    THEN /\ QuoteCredited = 0 - expected
                         /\ WithinSlippage(BaseCredited, tk.quantity)
                    ELSE /\ BaseCredited = 0 - tk.quantity
                         /\ WithinSlippage(QuoteCredited, expected)]_vars

\* a paper Buy was executed with some slippage: less than the level's
\* quantity was received for the full price
C29_BuySlipped ==
    /\ paperTrading /\ tpc = "cooldown" /\ paperWallet.trades = 1
    /\ tk.level.side = "buy"
    /\ paperWallet.usdcBalance = initialUSDC - tk.quantity * tk.price
    /\ paperWallet.ethBalance + paperWallet.totalGasSpent > initialETH
    /\ paperWallet.ethBalance + paperWallet.totalGasSpent < initialETH + tk.quantity

\* ------------------------------------------------------------------ C30
\* C30: getStats(currentPrice) returns as unrealized P&L
\* (currentBase * price + currentQuote) - (initialBase * price + initialQuote)
\* and leaves the wallet as it was; on a wallet as constructed, with no
\* trades, the P&L is zero at every price.
C30_UnrealizedPnL ==
    /\ [](\A currentETHPrice \in Prices :
             PaperWalletGetStats(FreshWallet, currentETHPrice).unrealizedPnL = 0)
    /\ [][Called("getStats") =>
             /\ wcall'.unrealizedPnL =
                   (paperWallet.ethBalance * wcall'.currentETHPrice + paperWallet.usdcBalance)
                   - (initialETH * wcall'.currentETHPrice + initialUSDC)
             /\ paperWallet' = paperWallet
             /\ (paperWallet = FreshWallet) => wcall'.unrealizedPnL = 0]_vars

\* getStats was the first call on the wallet as constructed and returned 0
C30_FreshWalletStats ==
    /\ wcall.n = 1 /\ wcall.op = "getStats"
    /\ wcall.currentETHPrice > 0
    /\ wcall.unrealizedPnL = 0
    /\ paperWallet = FreshWallet

\* ============================================================ gridStrategy calls

\* prices of the GridLevel objects are kept in hundred-thousandths of a dollar
Fine == 100000
\* this.gridLevels = options.gridLevels || 10
defaultGridLevels == 10
LadderCenterPrices == {3000, 3050, 3200}
LadderSizes == {2, 3, defaultGridLevels}
Timestamps == {1700}
TxHashes == {"0x123abc"}
\* null in filledAt, null in txHash
NullAt == 0 - 1
NullHash == "null"

\* price * Math.pow(1 + spacingPercent / 100, i), one factor at a time
RECURSIVE Compound(_, _)
Compound(price, i) ==
    IF i = 0 THEN price
    ELSE IF i > 0
         THEN Compound(price + (price * gridSpacingPercent) \div 100, i - 1)
         ELSE Compound(price - (price * gridSpacingPercent) \div (100 + gridSpacingPercent),
                       i + 1)

\* two decimals cut off instead of rounded, in cents
toFixed2Truncated(price) == price \div (Fine \div 100)

\* price.toFixed(2), in cents
toFixed2(price) == (price + Fine \div 200) \div (Fine \div 100)

\* new GridLevel(index, price, side, quantity, filled)
NewGridLevel(index, price, side, quantity, filled) ==
    [index |-> index, price |-> price, side |-> side, quantity |-> quantity,
     filled |-> filled, filledAt |-> NullAt, txHash |-> NullHash]

\* the loop of calculateGridLevels over the GridLevel objects; the quantity
\* amountPerGrid / levelPrice is in ten-thousandths of an ETH
RECURSIVE PushGridLevels(_, _, _, _)
PushGridLevels(centerPrice, i, levelCount, acc) ==
    IF i > levelCount \div 2 THEN acc
    ELSE IF i = 0 /\ levelCount % 2 = 0
         THEN PushGridLevels(centerPrice, i + 1, levelCount, acc)
         ELSE LET levelPrice == Compound(centerPrice * Fine, i)
              IN  PushGridLevels(centerPrice, i + 1, levelCount,
                     Append(acc, NewGridLevel(Len(acc), levelPrice,
                                              IF i < 0 THEN "buy" ELSE "sell",
                                              (amountPerGrid * Unit * 1000)
                                                 \div (levelPrice \div (Fine \div 1000)),
                                              FALSE)))

\* calculateGridLevels({centerPrice, levelCount, spacingPercent, amountPerGrid})
\* on GridLevel objects: pushed, sorted by price, re-indexed
GridLevels(centerPrice, levelCount) ==
    Reindex(SortByPrice(PushGridLevels(centerPrice, 0 - levelCount \div 2, levelCount, << >>)))

\* fromJSON() that leaves txHash as the constructor set it
fromJSONNoHash(j) ==
    LET Get(key) == j[CHOOSE k \in 1..Len(j) : j[k][1] = key][2]
    IN  [NewGridLevel(Get("index"), Get("price"), Get("side"), Get("quantity"),
                      Get("filled"))
            EXCEPT !.filledAt = Get("filledAt")]

\* GridLevel.toJSON(): the object literal, key by key
toJSON(level) ==
    << <<"index", level.index>>, <<"price", level.price>>, <<"side", level.side>>,
       <<"quantity", level.quantity>>, <<"filled", level.filled>>,
       <<"filledAt", level.filledAt>>, <<"txHash", level.txHash>> >>

\* GridLevel.fromJSON(json)
fromJSON(j) ==
    LET Get(key) == j[CHOOSE k \in 1..Len(j) : j[k][1] = key][2]
    IN  [NewGridLevel(Get("index"), Get("price"), Get("side"), Get("quantity"),
                      Get("filled"))
            EXCEPT !.filledAt = Get("filledAt"), !.txHash = Get("txHash")]

\* the ladders of the inputs drawn below
LaddersBuilt ==
    [centerPrice \in LadderCenterPrices |->
        [levelCount \in LadderSizes |-> GridLevels(centerPrice, levelCount)]]

strategyVars == <<gridLevelCount, configuredBasePrice, duneConfigured, grid, basePrice,
                  lastETHPrice, tradesExecuted, running, tpc, tk, ig, spc, fr, srRecord,
                  botRef, app, paperWallet, wcall, paperTrading, signedTx>>

\* gridStrategy next to an engine that is not run
StrategyInit ==
    /\ paperTrading = FALSE /\ Constructed
    /\ gridLevelCount = gridLevels /\ configuredBasePrice = 0
    /\ duneConfigured /\ grid = << >>

\* grid = calculateGridLevels({centerPrice, levelCount, ...})
strategyCalculateGridLevels ==
    /\ \E centerPrice \in LadderCenterPrices, levelCount \in LadderSizes :
          /\ levels' = LaddersBuilt[centerPrice][levelCount]
          /\ scall' = [op |-> "calculateGridLevels", centerPrice |-> centerPrice,
                       levelCount |-> levelCount]
    /\ UNCHANGED json
    /\ UNCHANGED strategyVars

\* level.filled = true; level.filledAt = Date.now(); level.txHash = ...
strategyFill ==
    /\ Cardinality({k \in 1..Len(levels) : levels[k].filled}) < MaxFilled
    /\ \E k \in 1..Len(levels), at \in Timestamps, hash \in TxHashes :
          /\ ~levels[k].filled
          /\ levels' = [levels EXCEPT ![k].filled = TRUE, ![k].filledAt = at,
                                      ![k].txHash = hash]
    /\ scall' = [scall EXCEPT !.op = "fill"]
    /\ UNCHANGED json
    /\ UNCHANGED strategyVars

\* this.grid.map(g => g.toJSON())
strategyToJSON ==
    /\ levels # << >>
    /\ json' = [k \in 1..Len(levels) |-> toJSON(levels[k])]
    /\ scall' = [scall EXCEPT !.op = "toJSON"]
    /\ UNCHANGED levels
    /\ UNCHANGED strategyVars

\* state.grid.map(g => GridLevel.fromJSON(g))
strategyFromJSON ==
    /\ json # << >>
    /\ levels' = [k \in 1..Len(json) |-> fromJSON(json[k])]
    /\ scall' = [scall EXCEPT !.op = "fromJSON"]
    /\ UNCHANGED json
    /\ UNCHANGED strategyVars

StrategyNext ==
    \/ strategyCalculateGridLevels
    \/ strategyFill
    \/ strategyToJSON
    \/ strategyFromJSON

StrategySpec == StrategyInit /\ [][StrategyNext]_vars

\* ------------------------------------------------------------------ C31
\* the ladder built for center 3050 with the default 10 levels
ExampleBuilt ==
    /\ scall.op = "calculateGridLevels"
    /\ scall.centerPrice = 3050 /\ scall.levelCount = defaultGridLevels

C32_LevelRoundTrips ==
    /\ \A k \in 1..Len(levels) :
          LET level == levels[k]
              back == fromJSON(toJSON(level))
          IN  /\ back.index = level.index
              /\ back.price = level.price
              /\ back.side = level.side
              /\ back.quantity = level.quantity
              /\ back.filled = level.filled
              /\ back.filledAt = level.filledAt
              /\ back.txHash = level.txHash
    /\ scall.op = "fromJSON" => json = [k \in 1..Len(levels) |-> toJSON(levels[k])]

\* a ladder with a filled level was serialized and read back
C32_FilledLevelReadBack ==
    /\ scall.op = "fromJSON"
    /\ Len(levels) = Len(json)
    /\ \E k \in 1..Len(levels) :
          /\ levels[k].filled
          /\ levels[k].filledAt \in Timestamps
          /\ levels[k].txHash \in TxHashes

\* ------------------------------------------------------------------ C33
\* an execution went through in this step
Executed == tpc = "executing" /\ tpc' = "cooldown"

\* C33: a successful execution marks the level filled and counts one trade,
\* then persists the state (the snapshot has the fill and the count, not yet
\* the reset), then hands the trade to the history store, and only then
\* resets the opposite level; when it reset one, the last snapshot written
\* is the ladder with the reset.
C33_ExecutionOrder ==
    [][Executed =>
          LET e == tk'.effects
          IN  /\ tradesExecuted' = tradesExecuted + 1
              /\ Len(e) = IF tk'.reset # 0 - 1 THEN 3 ELSE 2
              /\ e[1].op = "saveState"
              /\ e[1].tradesExecuted = tradesExecuted + 1
              /\ e[1].grid = MarkFilled(tk.level, grid)
              /\ ~tk.level.stale => e[1].grid[tk.level.pos].filled
              /\ e[2].op = "recordTrade"
              /\ e[2].gridLevel = tk.level.index
              /\ IF tk'.reset # 0 - 1
                 THEN /\ e[1].grid[tk'.reset + 1].filled
                      /\ e[3].op = "saveState"
                      /\ e[3].tradesExecuted = tradesExecuted'
                      /\ e[3].grid = grid'
                      /\ ~grid'[tk'.reset + 1].filled
                 ELSE grid' = e[1].grid]_vars

\* an execution that reset the level next to the one it filled has persisted
\* the ladder before and after the reset
C33_ResetPersisted ==
    /\ tpc = "cooldown" /\ ~tk.level.stale
    /\ tk.reset # 0 - 1
    /\ Len(tk.effects) = 3
    /\ tk.effects[1].grid[tk.reset + 1].filled
    /\ tk.effects[3].grid = grid
    /\ grid[tk.level.pos].filled /\ ~grid[tk.reset + 1].filled

\* ------------------------------------------------------------------ C34
\* a build stores its ladder in this step
LadderReplaced == \E c \in Callers : GridBuilt(c)

\* C34: a non-empty ladder is strictly increasing by price with each index
\* equal to the position, from 0; a step that is not the end of a build
\* keeps the length of the ladder and every level's index, price, side and
\* quantity, whatever it fills or resets.
C34_LadderFrameKept ==
    /\ [](/\ \A k \in 1..Len(grid) : grid[k].index = k - 1
          /\ \A k \in 1..(Len(grid) - 1) : grid[k].price < grid[k + 1].price)
    /\ [][~LadderReplaced =>
             /\ Len(grid') = Len(grid)
             /\ \A k \in 1..Len(grid) :
                   /\ grid'[k].index = grid[k].index
                   /\ grid'[k].price = grid[k].price
                   /\ grid'[k].side = grid[k].side
                   /\ grid'[k].quantity = grid[k].quantity]_vars

\* two executions in one ladder, the second of which re-armed a level: the
\* level is as it was built
C34_RearmedLevelAsBuilt ==
    /\ tpc = "cooldown" /\ tradesExecuted = 2 /\ ~tk.level.stale
    /\ tk.reset # 0 - 1
    /\ Len(grid) = gridLevelCount
    /\ grid = [k \in 1..Len(grid) |->
                  [calculateGridLevels(basePrice, gridLevelCount)[k]
                      EXCEPT !.filled = grid[k].filled]]

\* ------------------------------------------------------------------ C35
\* the engine as constructed: run() not called, no rebuild by the scheduler
AsConstructed == tpc = "new" /\ spc = "idle" /\ srRecord = NoRecord

\* run() is called in this step
RunStarts == tpc = "new" /\ tpc' # "new" /\ app' = "up"

\* C35: an engine constructed over a snapshot with a ladder holds that ladder
\* (fill flags included), its basePrice and its tradesExecuted; run() then
\* goes to its first tick without building, and builds only when no ladder
\* was loaded: the run's build never starts over a ladder.
C35_ResumesFromSnapshot ==
    /\ []((AsConstructed /\ grid # << >>)
            => [grid |-> grid, basePrice |-> basePrice, tradesExecuted |-> tradesExecuted]
                  \in Snapshots(gridLevelCount))
    /\ [][/\ (RunStarts /\ grid # << >>)
               => /\ tpc' = "fetching" /\ ig'["run"] = NoFrame
                  /\ UNCHANGED <<grid, basePrice, tradesExecuted, lastETHPrice>>
          /\ (RunStarts /\ grid = << >>) => ig'["run"].st # "none"
          /\ (ig["run"].st = "none" /\ ig'["run"].st \notin {"none", "killed"})
               => RunStarts /\ grid = << >>]_vars

\* run() went to its first tick on the snapshot's ladder: no price was
\* fetched, the base price is the snapshot's and not the configured one
C35_RunOnLoadedLadder ==
    /\ tpc = "fetching" /\ running
    /\ spc = "idle" /\ srRecord = NoRecord
    /\ lastETHPrice = 0
    /\ configuredBasePrice # 0 /\ basePrice # configuredBasePrice
    /\ [grid |-> grid, basePrice |-> basePrice, tradesExecuted |-> tradesExecuted]
          \in Snapshots(gridLevelCount)

\* ------------------------------------------------------------------ C36
\* C36: in paper mode an execution that fails leaves the paper wallet as it
\* was, and the wallet has recorded as many trades as executions succeeded.
C36_FailedTradeKeepsWallet ==
    /\ [](paperTrading => paperWallet.trades = tradesExecuted)
    /\ [][(paperTrading /\ TradeFailed) => paperWallet' = paperWallet]_vars

\* ------------------------------------------------------------------ C37
\* the positions of the levels of a side
LevelsOf(side) == {k \in 1..Len(grid) : grid[k].side = side}

\* C37: in a ladder in which as many trades were executed as it has Sell
\* levels, the topmost Sell level among them and no Buy level left filled
\* (the price stayed at or above every Sell level: each Sell level was
\* executed once, bottom up), the Sell side is exhausted.
C37_SellSideExhaustedOnce ==
    (/\ Len(grid) >= 2
     /\ tradesExecuted = Cardinality(LevelsOf("sell"))
     /\ grid[Len(grid)].filled
     /\ \A k \in LevelsOf("buy") : ~grid[k].filled)
       => \A k \in LevelsOf("sell") : grid[k].filled

\* ------------------------------------------------------------------ C38
\* C38: whenever tradesExecuted is incremented, the level that was executed
\* belongs to the engine's current ladder and is filled there once the
\* execution is over, whatever rebuild ran while the trade was awaited.
C38_FillInLiveLadder ==
    [][(tradesExecuted' = tradesExecuted + 1)
          => /\ ~tk.level.stale
             /\ tk.level.pos \in 1..Len(grid')
             /\ grid'[tk.level.pos].index = tk.level.index
             /\ grid'[tk.level.pos].filled]_vars

\* ------------------------------------------------------------------ C39
\* C39: in simulation mode neither balance of the paper wallet is ever
\* negative, whatever Buys, Sells and gas deductions the engine performed.
C39_BalancesNeverNegative ==
    paperTrading => paperWallet.ethBalance >= 0 /\ paperWallet.usdcBalance >= 0

\* ------------------------------------------------------------------ C40
\* C40: once the application's shutdown has stopped the scheduler and the
\* engine, no build stores a ladder and no trade is executed, also when a
\* firing or a tick was in flight at the stop.
C40_QuietAfterStop ==
    [][app = "stopping" => ~LadderReplaced /\ ~Executed]_vars
====
